---- MODULE Spec2Model ----
(***************************************************************************)
(* TDSC blog backend: registration / login (routes/auth.py) and blog       *)
(* engagement - votes and comments - (routes/engagement.py) over a         *)
(* MongoDB database (database.py), behind the request-id middleware        *)
(* (tracing.py).                                                           *)
(*                                                                         *)
(* The route handlers are plain `def` functions, which FastAPI runs on a   *)
(* thread pool: several requests are in flight at once and interleave at   *)
(* their database operations.  Every database operation (find_one,         *)
(* count_documents, insert_one, update_one, delete_one) is one atomic      *)
(* step; the Python between two database operations belongs to the step    *)
(* of the operation that follows it.                                       *)
(***************************************************************************)
EXTENDS Integers, Sequences, FiniteSets, TLC

VARIABLES
    users,      \* the 'users' collection: a set of user documents
    votes,      \* the 'votes' collection: a set of vote documents
    comments,   \* the 'comments' collection: a set of comment documents
    reqs,       \* the requests being served: slot -> request record
    now,        \* datetime.utcnow(), in minutes
    nextOid,    \* the next ObjectId() to be generated
    started     \* how many requests have been received so far

vars == <<users, votes, comments, reqs, now, nextOid, started>>
db == <<users, votes, comments>>

----------------------------------------------------------------------------
(* Bounds of the model *)

\* how many requests are served at the same time
NumSlots == 2
\* how many requests are received in a behaviour in which requests overlap
MaxRequests == 3
\* how many requests are received in a behaviour in which they do not
MaxSerialRequests == 4
\* the clock advances in steps of ClockStep minutes, up to MaxClock
ClockStep == 1440
MaxClock == 2880
\* bcrypt.gensalt() draws the salt from 1..MaxSalt
MaxSalt == 1

Slots == 1..NumSlots

----------------------------------------------------------------------------
(* Configuration: routes/auth.py *)

JWT_SECRET == "tdsc_super_secret_key_change_in_production_2024"
OTHER_SECRET == "some_other_key"
ACCESS_TOKEN_EXPIRE_MINUTES == 1440

----------------------------------------------------------------------------
(* Inputs of the requests *)

Usernames == {"alice", "bob", "carol"}
Emails == {"a@x.com", "b@x.com", "c@x.com"}
Passwords == {"secret1", "wrong"}
Slugs == {"p1", "p2"}
VoteTypeInputs == {"up", "down", "sideways"}
Texts == {"hello"}

\* A string that is meant to hold an ObjectId: str(oid) is a 24 digit hex
\* string, any other string is one ObjectId(...) raises InvalidId on.
StrOfOid(oid) == [hex |-> TRUE, n |-> oid]
NotAnOidString == [hex |-> FALSE, n |-> 0]
\* ObjectId(s) for a string s: {} when it raises, {oid} otherwise
ObjectId(s) == IF s.hex THEN {s.n} ELSE {}

\* The string of an ObjectId that no document ever gets
UnusedOidString == StrOfOid(0)

----------------------------------------------------------------------------
(* models/db_models.py *)

User_create_doc(oid, username, email, hashed_password, t) ==
    [id |-> oid, username |-> username, email |-> email,
     hashed_password |-> hashed_password, created_at |-> t]

User_to_response(doc) ==
    [id |-> StrOfOid(doc.id), username |-> doc.username, email |-> doc.email,
     created_at |-> doc.created_at]

\* user_id arrives as the string current_user['id'] and is parsed back
Vote_create_doc(oid, user_id, post_slug, vote_type, t) ==
    [id |-> oid, user_id |-> CHOOSE u \in ObjectId(user_id) : TRUE,
     post_slug |-> post_slug, vote_type |-> vote_type,
     created_at |-> t, updated_at |-> t]

Comment_create_doc(oid, user_id, post_slug, text, t) ==
    [id |-> oid, user_id |-> CHOOSE u \in ObjectId(user_id) : TRUE,
     post_slug |-> post_slug, text |-> text, created_at |-> t]

----------------------------------------------------------------------------
(* database.py: the unique indexes created by initialize_collections *)

\* users: create_index('username', unique=True), create_index('email', unique=True)
UsersEmailIndexOnly(coll, doc) ==
    \E u \in coll : u.email = doc.email

UsersDuplicateKey(coll, doc) ==
    \/ \E u \in coll : u.username = doc.username
    \/ \E u \in coll : u.email = doc.email

\* votes: create_index([('user_id', 1), ('post_slug', 1)], unique=True)
VotesIndexNotUnique(coll, doc) == FALSE

VotesDuplicateKey(coll, doc) ==
    \E v \in coll : v.user_id = doc.user_id /\ v.post_slug = doc.post_slug

----------------------------------------------------------------------------
(* routes/auth.py: passwords and tokens *)

Salts == 1..MaxSalt

\* bcrypt.hashpw(password, salt): the hash holds the salt and is one-way
hash_password(password, salt) == [salt |-> salt, digest |-> <<salt, password>>]

\* bcrypt.checkpw(password, hashed): re-hash with the salt held in the hash
verify_password(plain_password, hashed_password) ==
    hash_password(plain_password, hashed_password.salt) = hashed_password

\* jwt.encode(payload + exp, key): sub is {} when the payload holds none
Jwt(sub, exp, key) == [form |-> "jwt", sub |-> sub, exp |-> exp, key |-> key]
NoCredentials == [form |-> "none", sub |-> {}, exp |-> 0, key |-> ""]
MalformedToken == [form |-> "garbage", sub |-> {}, exp |-> 0, key |-> ""]

\* timedelta(seconds=...) in place of timedelta(minutes=...)
create_access_token_in_seconds(sub, t) ==
    Jwt({sub}, t + (ACCESS_TOKEN_EXPIRE_MINUTES \div 60), JWT_SECRET)

create_access_token(sub, t) ==
    Jwt({sub}, t + ACCESS_TOKEN_EXPIRE_MINUTES, JWT_SECRET)

\* jwt.decode(token, JWT_SECRET, algorithms=[HS256]): the signature, then
\* the exp claim, which python-jose rejects when exp < now
jwt_decode_ignoring_exp(token, t) ==
    token.form = "jwt" /\ token.key = JWT_SECRET

jwt_decode_any_key(token, t) ==
    token.form = "jwt" /\ ~(token.exp < t)

jwt_decode(token, t) ==
    token.form = "jwt" /\ token.key = JWT_SECRET /\ ~(token.exp < t)

\* get_current_user: {} for None, {dict} for the user
get_current_user(credentials, t) ==
    IF credentials.form = "none" THEN {}
    ELSE IF ~jwt_decode(credentials, t) THEN {}
    ELSE IF credentials.sub = {} THEN {}
    ELSE LET user_id == CHOOSE x \in credentials.sub : TRUE
         IN  { User_to_response(u) :
                 u \in {x \in users : x.id \in ObjectId(user_id)} }

TheUser(r) == CHOOSE u \in r.user : TRUE
\* ObjectId(current_user['id'])
CallerOid(r) == CHOOSE o \in ObjectId(TheUser(r).id) : TRUE

\* The credentials a client can send at time t.
\* The token a stored user got when it signed up (signup, line 166)
SignupToken(u) == create_access_token(StrOfOid(u.id), u.created_at)

\* No Authorization header, a string that is no JWT, a token signed with
\* another key, and tokens signed with the server's key that name no
\* stored user, hold no ObjectId, or hold no sub claim
BadCredentials(t) ==
    {NoCredentials, MalformedToken,
     Jwt({StrOfOid(1)}, t + ACCESS_TOKEN_EXPIRE_MINUTES, OTHER_SECRET),
     create_access_token(UnusedOidString, t),
     create_access_token(NotAnOidString, t),
     Jwt({}, t + ACCESS_TOKEN_EXPIRE_MINUTES, JWT_SECRET)}

\* what the clients of the vote and comment routes send: nothing, or the
\* token they got at signup
BrowserCredentials == {NoCredentials} \cup {SignupToken(u) : u \in users}

\* the tokens alice and bob got at signup
VoterCredentials ==
    {SignupToken(u) : u \in {x \in users : x.username \in {"alice", "bob"}}}

\* every kind of credentials: the bad ones, and the tokens alice and bob
\* got at signup or get by signing in now
GatewayCredentials(t) ==
    BadCredentials(t) \cup VoterCredentials
    \cup {create_access_token(StrOfOid(u.id), t) :
             u \in {x \in users : x.username \in {"alice", "bob"}}}

\* the tokens the stored users hold at time t: those they were given at
\* signup, just now, and one lifetime ago to the minute and a minute before
IssueTimes(u, t) ==
    {t0 \in {u.created_at, t - ACCESS_TOKEN_EXPIRE_MINUTES - 1,
             t - ACCESS_TOKEN_EXPIRE_MINUTES, t} : t0 >= u.created_at}

HeldTokens(t) ==
    UNION {{create_access_token(StrOfOid(u.id), t0) : t0 \in IssueTimes(u, t)} :
             u \in users}

----------------------------------------------------------------------------
(* tracing.py: RequestIdMiddleware, and the responses of the application *)

\* uuid.uuid4(): the n-th request gets an identifier nobody else has
uuid4(n) == [kind |-> "uuid4", n |-> n]
InboundRequestId == [kind |-> "inbound", n |-> 1]
\* the x-request-id header of a request: {} when absent
NoInboundHeader == {}

\* request.headers.get('x-request-id', str(uuid.uuid4()))
RequestIdOf(hdr, n) == IF hdr = {} THEN uuid4(n) ELSE CHOOSE h \in hdr : TRUE

NoResponse == [status |-> 0, headers |-> {}, body |-> [none |-> TRUE]]

\* raise HTTPException(status_code, detail, headers)
HTTPException(status, detail, headers) ==
    [status |-> status, headers |-> headers, body |-> [detail |-> detail]]

Ok(body) == [status |-> 200, headers |-> {}, body |-> body]

\* dispatch: call_next returned a response (the handler returned, or raised
\* an HTTPException that FastAPI turned into a response): the header is set
dispatch(r, response) ==
    [response EXCEPT !.headers = @ \cup {<<"x-request-id", r.request_id>>}]

\* dispatch: call_next raised (an exception no handler is registered for):
\* it is logged and raised again, and the server answers 500 itself
ServerError == [status |-> 500, headers |-> {},
                body |-> [detail |-> "Internal Server Error"]]


\* the 422 FastAPI answers when the body does not pass the pydantic schema:
\* detail lists the field and the kind of each error
RequestValidationError(errors) ==
    [status |-> 422, headers |-> {}, body |-> [detail |-> errors]]

\* UserCreate: username of 2 to 50 characters, password of at least 6
UserCreateErrors(username, password) ==
    (IF Len(username) < 2 THEN {<<"username", "string_too_short">>} ELSE {})
    \cup (IF Len(username) > 50 THEN {<<"username", "string_too_long">>} ELSE {})
    \cup (IF Len(password) < 6 THEN {<<"password", "string_too_short">>} ELSE {})

\* CommentCreate: text of 1 to 2000 characters
CommentCreateErrors(text) ==
    (IF Len(text) < 1 THEN {<<"text", "string_too_short">>} ELSE {})
    \cup (IF Len(text) > 2000 THEN {<<"text", "string_too_long">>} ELSE {})

\* require_auth
RequireAuthFailed ==
    HTTPException(401, "Not authenticated", {<<"WWW-Authenticate", "Bearer">>})

----------------------------------------------------------------------------
(* The requests *)

NoArgs ==
    [slug |-> "", vote_type |-> "", username |-> "", email |-> "",
     password |-> "", comment_id |-> NotAnOidString, text |-> ""]

\* the local variables of the handlers that live across database operations
NoLocals ==
    [existing_vote |-> {}, upvotes |-> 0, downvotes |-> 0, comment |-> {},
     new_doc |-> {}, utcnow |-> 0, comment_docs |-> <<>>, usernames |-> <<>>]

IdleRequest ==
    [route |-> "none", pc |-> "idle", cred |-> NoCredentials, inbound |-> {},
     request_id |-> uuid4(0), user |-> {}, args |-> NoArgs,
     loc |-> NoLocals, resp |-> NoResponse]

\* A request has passed the middleware and its dependencies were resolved:
\* user is what get_current_user returned.
NewRequest(route, cred, hdr, args) ==
    [route |-> route, pc |-> "new", cred |-> cred, inbound |-> hdr,
     request_id |-> RequestIdOf(hdr, started + 1),
     user |-> get_current_user(cred, now), args |-> args,
     loc |-> NoLocals, resp |-> NoResponse]

\* a request is taken by the first worker that is free
Free(s) == reqs[s].pc \in {"idle", "done"}
CanReceive(s, budget) ==
    /\ Free(s)
    /\ \A t \in Slots : t < s => ~Free(t)
    /\ started < budget

Respond(r, response) ==
    [r EXCEPT !.pc = "done", !.loc = NoLocals, !.resp = dispatch(r, response)]
Raise(r) == [r EXCEPT !.pc = "done", !.loc = NoLocals, !.resp = ServerError]

----------------------------------------------------------------------------
(* routes/engagement.py: votes *)

count_ignoring_slug(coll, slug, vote_type) ==
    Cardinality({v \in coll : v.vote_type = vote_type})

\* votes.count_documents({"post_slug": slug, "vote_type": vote_type})
count_documents(coll, slug, vote_type) ==
    Cardinality({v \in coll : v.post_slug = slug /\ v.vote_type = vote_type})

\* votes.find_one({"post_slug": slug, "user_id": user_id}): {} for None
find_vote(coll, slug, user_id) ==
    LET found == {v \in coll : v.post_slug = slug /\ v.user_id = user_id}
    IN  IF found = {} THEN {} ELSE {CHOOSE v \in found : TRUE}

VoteResponse(upvotes, downvotes, user_vote) ==
    [upvotes |-> upvotes, downvotes |-> downvotes, user_vote |-> user_vote]

\* get_votes: the request arrives and get_current_user resolves the caller
StartGetVotes(s, budget, cred, hdr, slug) ==
    /\ CanReceive(s, budget)
    /\ LET r == NewRequest("get_votes", cred, hdr, [NoArgs EXCEPT !.slug = slug])
       IN  reqs' = [reqs EXCEPT ![s] = [r EXCEPT !.pc = "gv_up"]]
    /\ started' = started + 1
    /\ UNCHANGED <<users, votes, comments, now, nextOid>>

\* get_votes, also when called by submit_vote (line 122), line 55: count the
\* upvotes
GetVotesCountUp(s) ==
    /\ reqs[s].pc = "gv_up"
    /\ reqs' = [reqs EXCEPT ![s].pc = "gv_down",
                            ![s].loc.upvotes = count_documents(votes, reqs[s].args.slug, "up")]
    /\ UNCHANGED <<users, votes, comments, now, nextOid, started>>

\* get_votes, lines 58-62 and 70: count the downvotes; an anonymous caller
\* is answered at once
GetVotesCountDown(s) ==
    /\ reqs[s].pc = "gv_down"
    /\ LET r == reqs[s]
           down == count_documents(votes, r.args.slug, "down")
       IN  reqs' = [reqs EXCEPT ![s] =
                IF r.user = {}
                THEN Respond(r, Ok(VoteResponse(r.loc.upvotes, down, "null")))
                ELSE [r EXCEPT !.pc = "gv_user", !.loc.downvotes = down]]
    /\ UNCHANGED <<users, votes, comments, now, nextOid, started>>

\* get_votes, lines 63-70: the caller's own vote
GetVotesUserVote(s) ==
    /\ reqs[s].pc = "gv_user"
    /\ LET r == reqs[s]
           user_vote_doc == find_vote(votes, r.args.slug, CallerOid(r))
           user_vote == IF user_vote_doc = {} THEN "null"
                        ELSE (CHOOSE v \in user_vote_doc : TRUE).vote_type
       IN  reqs' = [reqs EXCEPT ![s] =
                Respond(r, Ok(VoteResponse(r.loc.upvotes, r.loc.downvotes, user_vote)))]
    /\ UNCHANGED <<users, votes, comments, now, nextOid, started>>

\* submit_vote, lines 78-90: the request arrives, require_auth resolves
\* the caller, and the handler checks vote_type
StartSubmitVote(s, budget, cred, hdr, slug, vote_type) ==
    /\ CanReceive(s, budget)
    /\ LET r == NewRequest("submit_vote", cred, hdr,
                           [NoArgs EXCEPT !.slug = slug, !.vote_type = vote_type])
       IN  reqs' = [reqs EXCEPT ![s] =
                IF r.user = {} THEN Respond(r, RequireAuthFailed)
                ELSE IF vote_type \notin {"up", "down"}
                THEN Respond(r, HTTPException(400, "Vote type must be 'up' or 'down'", {}))
                ELSE [r EXCEPT !.pc = "sv_read"]]
    /\ started' = started + 1
    /\ UNCHANGED <<users, votes, comments, now, nextOid>>

\* delete_one({"_id": oid})
delete_one(coll, oid) == {d \in coll : d.id # oid}

\* votes.update_one({"_id": oid}, {"$set": {vote_type, updated_at}})
update_vote(coll, oid, vote_type, t) ==
    {IF v.id = oid THEN [v EXCEPT !.vote_type = vote_type, !.updated_at = t] ELSE v :
       v \in coll}

\* the branch submit_vote takes on what it read (lines 101-117)
never_toggle_off(existing, vote_type) ==
    IF existing = {} THEN "insert" ELSE "update"

vote_branch(existing, vote_type) ==
    IF existing = {} THEN "insert"
    ELSE IF (CHOOSE v \in existing : TRUE).vote_type = vote_type THEN "delete"
    ELSE "update"

\* submit_vote, lines 96-99: the read of the caller's existing vote
SubmitVoteRead(s) ==
    /\ reqs[s].pc = "sv_read"
    /\ LET r == reqs[s]
           existing == find_vote(votes, r.args.slug, CallerOid(r))
       IN  reqs' = [reqs EXCEPT ![s] =
              [r EXCEPT !.loc.existing_vote = existing,
                        !.pc = IF vote_branch(existing, r.args.vote_type) = "delete"
                               THEN "sv_write" ELSE "sv_clock"]]
    /\ UNCHANGED <<users, votes, comments, now, nextOid, started>>

\* submit_vote, lines 111 and 115: datetime.utcnow() for the update, and
\* Vote.create_doc (ObjectId() and datetime.utcnow()) for the insert
SubmitVoteClock(s) ==
    /\ reqs[s].pc = "sv_clock"
    /\ LET r == reqs[s]
           branch == vote_branch(r.loc.existing_vote, r.args.vote_type)
           new_vote == Vote_create_doc(nextOid, TheUser(r).id, r.args.slug,
                                       r.args.vote_type, now)
       IN  IF branch = "insert"
           THEN /\ reqs' = [reqs EXCEPT ![s] =
                      [r EXCEPT !.pc = "sv_write", !.loc.new_doc = {new_vote}]]
                /\ nextOid' = nextOid + 1
           ELSE /\ reqs' = [reqs EXCEPT ![s] =
                      [r EXCEPT !.pc = "sv_write", !.loc.utcnow = now]]
                /\ UNCHANGED nextOid
    /\ UNCHANGED <<users, votes, comments, now, started>>

\* submit_vote, lines 101-117: the write chosen from what was read
SubmitVoteWrite(s) ==
    /\ reqs[s].pc = "sv_write"
    /\ LET r == reqs[s]
           vote_type == r.args.vote_type
           existing == r.loc.existing_vote
           branch == vote_branch(existing, vote_type)
           new_vote == CHOOSE v \in r.loc.new_doc : TRUE
           next == [r EXCEPT !.pc = "gv_up"]
       IN  CASE branch = "delete" ->
                  /\ votes' = delete_one(votes, (CHOOSE v \in existing : TRUE).id)
                  /\ reqs' = [reqs EXCEPT ![s] = next]
             [] branch = "update" ->
                  /\ votes' = update_vote(votes, (CHOOSE v \in existing : TRUE).id,
                                          vote_type, r.loc.utcnow)
                  /\ reqs' = [reqs EXCEPT ![s] = next]
             [] branch = "insert" /\ VotesDuplicateKey(votes, new_vote) ->
                  \* insert_one raises DuplicateKeyError, which nothing catches
                  /\ reqs' = [reqs EXCEPT ![s] = Raise(r)]
                  /\ UNCHANGED votes
             [] branch = "insert" /\ ~VotesDuplicateKey(votes, new_vote) ->
                  /\ votes' = votes \cup {new_vote}
                  /\ reqs' = [reqs EXCEPT ![s] = next]
    /\ UNCHANGED <<users, comments, now, nextOid, started>>

----------------------------------------------------------------------------
(* routes/engagement.py: comments *)

\* comments.find_one({"_id": oid}): {} for None
find_by_id(coll, oid) == {d \in coll : d.id = oid}

\* users.find_one({"_id": comment['user_id']}), and "Unknown" for None
username_of(user_id) ==
    LET found == find_by_id(users, user_id)
    IN  IF found = {} THEN "Unknown" ELSE (CHOOSE u \in found : TRUE).username

CommentResponse(comment, username, is_own) ==
    [id |-> StrOfOid(comment.id), username |-> username, text |-> comment.text,
     created_at |-> comment.created_at, is_own |-> is_own]

\* list(comments.find({"post_slug": slug}).sort("created_at", -1)): the
\* comments of the post, newest first, those of equal age in any order
sorted_comments_oldest_first(coll, slug) ==
    LET found == {c \in coll : c.post_slug = slug}
        n == Cardinality(found)
    IN  {q \in [1..n -> found] :
           /\ \A i, j \in 1..n : i # j => q[i] # q[j]
           /\ \A i, j \in 1..n : i < j => q[i].created_at <= q[j].created_at}

sorted_comments(coll, slug) ==
    LET found == {c \in coll : c.post_slug = slug}
        n == Cardinality(found)
    IN  {q \in [1..n -> found] :
           /\ \A i, j \in 1..n : i # j => q[i] # q[j]
           /\ \A i, j \in 1..n : i < j => q[i].created_at >= q[j].created_at}

\* get_comments, line 147
is_own_for_everyone(r, comment) == r.user # {}

is_own(r, comment) == r.user # {} /\ comment.user_id \in ObjectId(TheUser(r).id)

\* get_comments: the request arrives and get_current_user resolves the caller
StartGetComments(s, budget, cred, hdr, slug) ==
    /\ CanReceive(s, budget)
    /\ LET r == NewRequest("get_comments", cred, hdr, [NoArgs EXCEPT !.slug = slug])
       IN  reqs' = [reqs EXCEPT ![s] = [r EXCEPT !.pc = "gc_find"]]
    /\ started' = started + 1
    /\ UNCHANGED <<users, votes, comments, now, nextOid>>

\* the list get_comments answers with (lines 139-150)
CommentResponses(r, comment_docs, usernames) ==
    [i \in DOMAIN comment_docs |->
        CommentResponse(comment_docs[i], usernames[i], is_own(r, comment_docs[i]))]

\* get_comments, line 137: the read of the comments of the post; with none
\* the loop does not run and the empty list is returned
GetCommentsFind(s) ==
    /\ reqs[s].pc = "gc_find"
    /\ LET r == reqs[s]
       IN  \E comment_docs \in sorted_comments(comments, r.args.slug) :
             reqs' = [reqs EXCEPT ![s] =
                IF Len(comment_docs) = 0
                THEN Respond(r, Ok([items |-> CommentResponses(r, comment_docs, <<>>)]))
                ELSE [r EXCEPT !.pc = "gc_user", !.loc.comment_docs = comment_docs]]
    /\ UNCHANGED <<users, votes, comments, now, nextOid, started>>

\* get_comments, lines 140-150: the read of the author of the next comment
\* of the list; after the last one the list is returned
GetCommentsUser(s) ==
    /\ reqs[s].pc = "gc_user"
    /\ LET r == reqs[s]
           comment_docs == r.loc.comment_docs
           comment == comment_docs[Len(r.loc.usernames) + 1]
           usernames == Append(r.loc.usernames, username_of(comment.user_id))
       IN  reqs' = [reqs EXCEPT ![s] =
              IF Len(usernames) = Len(comment_docs)
              THEN Respond(r, Ok([items |-> CommentResponses(r, comment_docs, usernames)]))
              ELSE [r EXCEPT !.loc.usernames = usernames]]
    /\ UNCHANGED <<users, votes, comments, now, nextOid, started>>

\* add_comment, lines 156-158: the request arrives, require_auth resolves
\* the caller, and the body is validated
StartAddComment(s, budget, cred, hdr, slug, text) ==
    /\ CanReceive(s, budget)
    /\ LET r == NewRequest("add_comment", cred, hdr,
                           [NoArgs EXCEPT !.slug = slug, !.text = text])
       IN  reqs' = [reqs EXCEPT ![s] =
              IF r.user = {} THEN Respond(r, RequireAuthFailed)
              ELSE IF CommentCreateErrors(text) # {}
              THEN Respond(r, RequestValidationError(CommentCreateErrors(text)))
              ELSE [r EXCEPT !.pc = "ac_create"]]
    /\ started' = started + 1
    /\ UNCHANGED <<users, votes, comments, now, nextOid>>

\* add_comment, line 167: Comment.create_doc (ObjectId() and datetime.utcnow())
AddCommentCreate(s) ==
    /\ reqs[s].pc = "ac_create"
    /\ LET r == reqs[s]
           new_comment == Comment_create_doc(nextOid, TheUser(r).id, r.args.slug,
                                             r.args.text, now)
       IN  reqs' = [reqs EXCEPT ![s] =
              [r EXCEPT !.pc = "ac_insert", !.loc.new_doc = {new_comment}]]
    /\ nextOid' = nextOid + 1
    /\ UNCHANGED <<users, votes, comments, now, started>>

\* add_comment, line 169: the insert
AddCommentInsert(s) ==
    /\ reqs[s].pc = "ac_insert"
    /\ comments' = comments \cup reqs[s].loc.new_doc
    /\ reqs' = [reqs EXCEPT ![s].pc = "ac_fetch"]
    /\ UNCHANGED <<users, votes, now, nextOid, started>>

\* add_comment, lines 171-181: the comment is read back; when it is gone,
\* created_comment is None and created_comment['_id'] raises TypeError
AddCommentFetch(s) ==
    /\ reqs[s].pc = "ac_fetch"
    /\ LET r == reqs[s]
           inserted_id == (CHOOSE c \in r.loc.new_doc : TRUE).id
           created_comment == find_by_id(comments, inserted_id)
       IN  reqs' = [reqs EXCEPT ![s] =
              IF created_comment = {} THEN Raise(r)
              ELSE Respond(r, Ok(CommentResponse(CHOOSE c \in created_comment : TRUE,
                                                 TheUser(r).username, TRUE)))]
    /\ UNCHANGED <<users, votes, comments, now, nextOid, started>>

\* delete_comment, lines 198-211: what the handler answers on what it read,
\* "" when it goes on to delete
CommentNotFound == HTTPException(404, "Comment not found", {})
CommentNotYours == HTTPException(403, "You can only delete your own comments", {})

delete_check_with_slug(r, found) ==
    IF found = {} THEN {CommentNotFound}
    ELSE IF (CHOOSE c \in found : TRUE).post_slug # r.args.slug THEN {CommentNotFound}
    ELSE IF (CHOOSE c \in found : TRUE).user_id \notin ObjectId(TheUser(r).id)
    THEN {CommentNotYours}
    ELSE {}

delete_check(r, found) ==
    IF found = {} THEN {CommentNotFound}
    ELSE IF (CHOOSE c \in found : TRUE).user_id \notin ObjectId(TheUser(r).id)
    THEN {CommentNotYours}
    ELSE {}

\* delete_comment: the request arrives and require_auth resolves the caller
StartDeleteComment(s, budget, cred, hdr, slug, comment_id) ==
    /\ CanReceive(s, budget)
    /\ LET r == NewRequest("delete_comment", cred, hdr,
                           [NoArgs EXCEPT !.slug = slug, !.comment_id = comment_id])
       IN  reqs' = [reqs EXCEPT ![s] =
              IF r.user = {} THEN Respond(r, RequireAuthFailed)
              ELSE [r EXCEPT !.pc = "dc_find"]]
    /\ started' = started + 1
    /\ UNCHANGED <<users, votes, comments, now, nextOid>>

\* delete_comment, lines 198-211: the read and the two checks
DeleteCommentFind(s) ==
    /\ reqs[s].pc = "dc_find"
    /\ LET r == reqs[s]
           \* ObjectId(comment_id) raising is caught: found is empty
           found == UNION {find_by_id(comments, oid) : oid \in ObjectId(r.args.comment_id)}
       IN  reqs' = [reqs EXCEPT ![s] =
              IF delete_check(r, found) # {}
              THEN Respond(r, CHOOSE e \in delete_check(r, found) : TRUE)
              ELSE [r EXCEPT !.pc = "dc_delete", !.loc.comment = found]]
    /\ UNCHANGED <<users, votes, comments, now, nextOid, started>>

\* delete_comment, lines 213-218
DeleteCommentDelete(s) ==
    /\ reqs[s].pc = "dc_delete"
    /\ LET r == reqs[s]
       IN  /\ comments' = delete_one(comments, CHOOSE o \in ObjectId(r.args.comment_id) : TRUE)
           /\ reqs' = [reqs EXCEPT ![s] = Respond(r, Ok([message |-> "Comment deleted"]))]
    /\ UNCHANGED <<users, votes, now, nextOid, started>>

\* the comment identifiers a client can send: those of the stored
\* comments, one of no comment, and a string that is no ObjectId
CommentIds ==
    {StrOfOid(c.id) : c \in comments} \cup {UnusedOidString, NotAnOidString}

----------------------------------------------------------------------------
(* routes/auth.py: signup, signin, me *)

\* users.find_one({field: value}): {} for None
find_user_by_email(coll, email) ==
    LET found == {u \in coll : u.email = email}
    IN  IF found = {} THEN {} ELSE {CHOOSE u \in found : TRUE}

find_user_by_username(coll, username) ==
    LET found == {u \in coll : u.username = username}
    IN  IF found = {} THEN {} ELSE {CHOOSE u \in found : TRUE}

\* Token(access_token, token_type="bearer", user)
Token(access_token, user) ==
    [access_token |-> access_token, token_type |-> "bearer", user |-> user]

\* signup, lines 129-143: the request arrives, the body is validated, and
\* the email is looked up
StartSignup(s, budget, hdr, username, email, password) ==
    /\ CanReceive(s, budget)
    /\ LET r == NewRequest("signup", NoCredentials, hdr,
                           [NoArgs EXCEPT !.username = username, !.email = email,
                                          !.password = password])
       IN  reqs' = [reqs EXCEPT ![s] =
              IF UserCreateErrors(username, password) # {}
              THEN Respond(r, RequestValidationError(UserCreateErrors(username, password)))
              ELSE IF find_user_by_email(users, email) # {}
              THEN Respond(r, HTTPException(400, "Email already registered", {}))
              ELSE [r EXCEPT !.pc = "su_username"]]
    /\ started' = started + 1
    /\ UNCHANGED <<users, votes, comments, now, nextOid>>

\* signup, lines 145-152: the username check
SignupCheckUsername(s) ==
    /\ reqs[s].pc = "su_username"
    /\ LET r == reqs[s]
       IN  reqs' = [reqs EXCEPT ![s] =
              IF find_user_by_username(users, r.args.username) # {}
              THEN Respond(r, HTTPException(400, "Username already taken", {}))
              ELSE [r EXCEPT !.pc = "su_create"]]
    /\ UNCHANGED <<users, votes, comments, now, nextOid, started>>

\* signup, lines 155-156: hash_password and User.create_doc (ObjectId()
\* and datetime.utcnow())
SignupCreate(s) ==
    /\ reqs[s].pc = "su_create"
    /\ \E salt \in Salts :
         LET r == reqs[s]
             hashed_pw == hash_password(r.args.password, salt)
             new_user_doc == User_create_doc(nextOid, r.args.username, r.args.email,
                                             hashed_pw, now)
         IN  reqs' = [reqs EXCEPT ![s] =
                [r EXCEPT !.pc = "su_insert", !.loc.new_doc = {new_user_doc}]]
    /\ nextOid' = nextOid + 1
    /\ UNCHANGED <<users, votes, comments, now, started>>

\* signup, line 157: the insert, which raises DuplicateKeyError on the
\* unique indexes
SignupInsert(s) ==
    /\ reqs[s].pc = "su_insert"
    /\ LET r == reqs[s]
           new_user_doc == CHOOSE u \in r.loc.new_doc : TRUE
       IN  IF UsersDuplicateKey(users, new_user_doc)
           THEN /\ reqs' = [reqs EXCEPT ![s] = Raise(r)]
                /\ UNCHANGED users
           ELSE /\ users' = users \cup {new_user_doc}
                /\ reqs' = [reqs EXCEPT ![s].pc = "su_fetch"]
    /\ UNCHANGED <<votes, comments, now, nextOid, started>>

\* signup, lines 162-173: the user is read back and the token is created;
\* were the user gone, created_user would be None and raise TypeError
SignupFetch(s) ==
    /\ reqs[s].pc = "su_fetch"
    /\ LET r == reqs[s]
           inserted_id == (CHOOSE u \in r.loc.new_doc : TRUE).id
           found == find_by_id(users, inserted_id)
           created_user == CHOOSE u \in found : TRUE
           access_token == create_access_token(StrOfOid(created_user.id), now)
       IN  reqs' = [reqs EXCEPT ![s] =
              IF found = {} THEN Raise(r)
              ELSE Respond(r, Ok(Token(access_token, User_to_response(created_user))))]
    /\ UNCHANGED <<users, votes, comments, now, nextOid, started>>

\* signin, lines 187-192 and 195-200: the two failures
SigninUnknownEmailTold == HTTPException(404, "User not found", {})

SigninUnknownEmail == HTTPException(401, "Invalid email or password", {})

SigninWrongPassword == HTTPException(401, "Invalid email or password", {})

\* signin: the request arrives and the one read of the users; the password
\* check and the token (its clock read) follow with no database call
StartSignin(s, budget, hdr, email, password) ==
    /\ CanReceive(s, budget)
    /\ LET r == NewRequest("signin", NoCredentials, hdr,
                           [NoArgs EXCEPT !.email = email, !.password = password])
           found == find_user_by_email(users, email)
           user == CHOOSE u \in found : TRUE
       IN  reqs' = [reqs EXCEPT ![s] =
              IF found = {} THEN Respond(r, SigninUnknownEmail)
              ELSE IF ~verify_password(password, user.hashed_password)
              THEN Respond(r, SigninWrongPassword)
              ELSE Respond(r, Ok(Token(create_access_token(StrOfOid(user.id), now),
                                       User_to_response(user))))]
    /\ started' = started + 1
    /\ UNCHANGED <<users, votes, comments, now, nextOid>>

\* get_me
StartGetMe(s, budget, cred, hdr) ==
    /\ CanReceive(s, budget)
    /\ LET r == NewRequest("get_me", cred, hdr, NoArgs)
       IN  reqs' = [reqs EXCEPT ![s] =
              IF r.user = {} THEN Respond(r, RequireAuthFailed)
              ELSE Respond(r, Ok(TheUser(r)))]
    /\ started' = started + 1
    /\ UNCHANGED <<users, votes, comments, now, nextOid>>

----------------------------------------------------------------------------
(* The clock *)

Tick ==
    /\ now < MaxClock
    /\ now' = now + ClockStep
    /\ UNCHANGED <<users, votes, comments, reqs, nextOid, started>>

----------------------------------------------------------------------------
(* Specifications *)

\* the state after startup: initialize_collections has created the empty
\* collections and their indexes
Init ==
    /\ users = {}
    /\ votes = {}
    /\ comments = {}
    /\ reqs = [s \in Slots |-> IdleRequest]
    /\ now = 0
    /\ nextOid = 1
    /\ started = 0

\* the state after alice, bob and carol have signed up, one after the other
SeedUsers ==
    { User_create_doc(1, "alice", "a@x.com", hash_password("secret1", 1), 0),
      User_create_doc(2, "bob", "b@x.com", hash_password("secret1", 1), 0),
      User_create_doc(3, "carol", "c@x.com", hash_password("secret1", 1), 0) }

InitRegistered ==
    /\ users = SeedUsers
    /\ votes = {}
    /\ comments = {}
    /\ reqs = [s \in Slots |-> IdleRequest]
    /\ now = 0
    /\ nextOid = 4
    /\ started = 0

\* The whole service: every route, every input, requests that overlap,
\* from the empty database.  The specifications after it are this one with
\* the inputs, the routes or the overlap narrowed, and (InitRegistered)
\* started after the signups of alice, bob and carol.
Next ==
    \/ \E s \in Slots, u \in Usernames, e \in Emails, p \in Passwords :
          StartSignup(s, MaxRequests, NoInboundHeader, u, e, p)
    \/ \E s \in Slots : SignupCheckUsername(s)
    \/ \E s \in Slots : SignupCreate(s)
    \/ \E s \in Slots : SignupInsert(s)
    \/ \E s \in Slots : SignupFetch(s)
    \/ \E s \in Slots, e \in Emails, p \in Passwords :
          StartSignin(s, MaxRequests, NoInboundHeader, e, p)
    \/ \E s \in Slots, cred \in GatewayCredentials(now) :
          StartGetMe(s, MaxRequests, cred, NoInboundHeader)
    \/ \E s \in Slots, cred \in GatewayCredentials(now), slug \in Slugs :
          StartGetVotes(s, MaxRequests, cred, NoInboundHeader, slug)
    \/ \E s \in Slots, cred \in GatewayCredentials(now), slug \in Slugs,
          vt \in VoteTypeInputs :
          StartSubmitVote(s, MaxRequests, cred, NoInboundHeader, slug, vt)
    \/ \E s \in Slots : SubmitVoteRead(s)
    \/ \E s \in Slots : SubmitVoteClock(s)
    \/ \E s \in Slots : SubmitVoteWrite(s)
    \/ \E s \in Slots : GetVotesCountUp(s)
    \/ \E s \in Slots : GetVotesCountDown(s)
    \/ \E s \in Slots : GetVotesUserVote(s)
    \/ \E s \in Slots, cred \in GatewayCredentials(now), slug \in Slugs :
          StartGetComments(s, MaxRequests, cred, NoInboundHeader, slug)
    \/ \E s \in Slots, cred \in GatewayCredentials(now), slug \in Slugs, text \in Texts :
          StartAddComment(s, MaxRequests, cred, NoInboundHeader, slug, text)
    \/ \E s \in Slots : GetCommentsFind(s)
    \/ \E s \in Slots : GetCommentsUser(s)
    \/ \E s \in Slots : AddCommentCreate(s)
    \/ \E s \in Slots : AddCommentInsert(s)
    \/ \E s \in Slots : AddCommentFetch(s)
    \/ \E s \in Slots : DeleteCommentFind(s)
    \/ \E s \in Slots, cred \in GatewayCredentials(now), slug \in Slugs,
          id \in CommentIds :
          StartDeleteComment(s, MaxRequests, cred, NoInboundHeader, slug, id)
    \/ \E s \in Slots : DeleteCommentDelete(s)
    \/ Tick

Spec == Init /\ [][Next]_vars

\* Vote submissions that overlap: alice votes up and down on p1, bob up
NextVotes ==
    \/ \E s \in Slots, cred \in VoterCredentials, vt \in {"up", "down"} :
          /\ (vt = "down" => cred.sub = {StrOfOid(1)})
          /\ StartSubmitVote(s, MaxRequests, cred, NoInboundHeader, "p1", vt)
    \/ \E s \in Slots : SubmitVoteRead(s)
    \/ \E s \in Slots : SubmitVoteClock(s)
    \/ \E s \in Slots : SubmitVoteWrite(s)
    \/ \E s \in Slots : GetVotesCountUp(s)
    \/ \E s \in Slots : GetVotesCountDown(s)
    \/ \E s \in Slots : GetVotesUserVote(s)

SpecVotes == InitRegistered /\ [][NextVotes]_vars

\* The vote routes, one request after the other
NextVotesSerial ==
    \/ \E cred \in BrowserCredentials, slug \in Slugs :
          StartGetVotes(1, MaxSerialRequests, cred, NoInboundHeader, slug)
    \/ \E cred \in BrowserCredentials, slug \in Slugs, vt \in {"up", "down"} :
          StartSubmitVote(1, MaxSerialRequests, cred, NoInboundHeader, slug, vt)
    \/ SubmitVoteRead(1)
    \/ SubmitVoteClock(1)
    \/ SubmitVoteWrite(1)
    \/ GetVotesCountUp(1)
    \/ GetVotesCountDown(1)
    \/ GetVotesUserVote(1)

SpecVotesSerial == InitRegistered /\ [][NextVotesSerial]_vars

\* Registration and login from an empty database, with requests that overlap
NextAuth ==
    \/ \E s \in Slots, u \in {"alice", "bob"}, e \in {"a@x.com", "b@x.com"}, p \in Passwords :
          StartSignup(s, MaxRequests, NoInboundHeader, u, e, p)
    \/ \E s \in Slots : SignupCheckUsername(s)
    \/ \E s \in Slots : SignupCreate(s)
    \/ \E s \in Slots : SignupInsert(s)
    \/ \E s \in Slots : SignupFetch(s)
    \/ \E s \in Slots, e \in {"a@x.com", "b@x.com"}, p \in Passwords :
          StartSignin(s, MaxRequests, NoInboundHeader, e, p)

SpecAuth == Init /\ [][NextAuth]_vars

\* The comment routes, with requests that overlap: alice and bob comment
\* on p1, list its comments, and delete comments under the path of any post
NextComments ==
    \/ \E s \in Slots, cred \in VoterCredentials :
          StartGetComments(s, MaxRequests, cred, NoInboundHeader, "p1")
    \/ \E s \in Slots, cred \in VoterCredentials, text \in Texts :
          StartAddComment(s, MaxRequests, cred, NoInboundHeader, "p1", text)
    \/ \E s \in Slots : GetCommentsFind(s)
    \/ \E s \in Slots : GetCommentsUser(s)
    \/ \E s \in Slots : AddCommentCreate(s)
    \/ \E s \in Slots : AddCommentInsert(s)
    \/ \E s \in Slots : AddCommentFetch(s)
    \/ \E s \in Slots : DeleteCommentFind(s)
    \/ \E s \in Slots, cred \in VoterCredentials, slug \in Slugs, id \in CommentIds :
          StartDeleteComment(s, MaxRequests, cred, NoInboundHeader, slug, id)
    \/ \E s \in Slots : DeleteCommentDelete(s)

SpecComments == InitRegistered /\ [][NextComments]_vars

\* Every route, with every kind of credentials, while the clock advances
NextGateway ==
    \/ \E cred \in GatewayCredentials(now), slug \in {"p1"} :
          StartGetVotes(1, MaxRequests, cred, NoInboundHeader, slug)
    \/ \E cred \in GatewayCredentials(now), slug \in {"p1"}, vt \in {"up", "sideways"} :
          StartSubmitVote(1, MaxRequests, cred, NoInboundHeader, slug, vt)
    \/ SubmitVoteRead(1)
    \/ SubmitVoteClock(1)
    \/ SubmitVoteWrite(1)
    \/ GetVotesCountUp(1)
    \/ GetVotesCountDown(1)
    \/ GetVotesUserVote(1)
    \/ \E cred \in GatewayCredentials(now), slug \in {"p1"} :
          StartGetComments(1, MaxRequests, cred, NoInboundHeader, slug)
    \/ \E cred \in GatewayCredentials(now), slug \in {"p1"}, text \in Texts \cup {""} :
          StartAddComment(1, MaxRequests, cred, NoInboundHeader, slug, text)
    \/ GetCommentsFind(1)
    \/ GetCommentsUser(1)
    \/ AddCommentCreate(1)
    \/ AddCommentInsert(1)
    \/ AddCommentFetch(1)
    \/ DeleteCommentFind(1)
    \/ \E cred \in GatewayCredentials(now), slug \in {"p1"}, id \in CommentIds :
          StartDeleteComment(1, MaxRequests, cred, NoInboundHeader, slug, id)
    \/ DeleteCommentDelete(1)
    \/ \E cred \in GatewayCredentials(now) : StartGetMe(1, MaxRequests, cred, NoInboundHeader)
    \/ Tick

SpecGateway == InitRegistered /\ [][NextGateway]_vars

\* Tokens are issued by signup and signin and sent back to get_me, one
\* request after the other, while the clock advances
NextTokens ==
    \/ \E p \in Passwords :
          StartSignup(1, MaxSerialRequests, NoInboundHeader, "dave", "d@x.com", p)
    \/ SignupCheckUsername(1)
    \/ SignupCreate(1)
    \/ SignupInsert(1)
    \/ SignupFetch(1)
    \/ \E e \in {"a@x.com", "d@x.com"}, p \in Passwords :
          StartSignin(1, MaxSerialRequests, NoInboundHeader, e, p)
    \/ \E cred \in HeldTokens(now) :
          StartGetMe(1, MaxSerialRequests, cred, NoInboundHeader)
    \/ Tick

SpecTokens == InitRegistered /\ [][NextTokens]_vars

\* Vote submissions that overlap, with and without an x-request-id header,
\* a token, and a valid vote_type
NextTracing ==
    \/ \E s \in Slots, cred \in {NoCredentials} \cup {SignupToken(u) : u \in {x \in users : x.username = "alice"}},
          hdr \in {NoInboundHeader, {InboundRequestId}}, vt \in {"up", "sideways"} :
          StartSubmitVote(s, MaxRequests, cred, hdr, "p1", vt)
    \/ \E s \in Slots : SubmitVoteRead(s)
    \/ \E s \in Slots : SubmitVoteClock(s)
    \/ \E s \in Slots : SubmitVoteWrite(s)
    \/ \E s \in Slots : GetVotesCountUp(s)
    \/ \E s \in Slots : GetVotesCountDown(s)
    \/ \E s \in Slots : GetVotesUserVote(s)

SpecTracing == InitRegistered /\ [][NextTracing]_vars

\* The comment routes, one request after the other, called by alice, by
\* bob and by nobody
NextCommentsSerial ==
    \/ \E cred \in {NoCredentials} \cup VoterCredentials, slug \in Slugs :
          StartGetComments(1, MaxSerialRequests, cred, NoInboundHeader, slug)
    \/ \E cred \in VoterCredentials, slug \in Slugs, text \in Texts :
          StartAddComment(1, MaxSerialRequests, cred, NoInboundHeader, slug, text)
    \/ GetCommentsFind(1)
    \/ GetCommentsUser(1)
    \/ AddCommentCreate(1)
    \/ AddCommentInsert(1)
    \/ AddCommentFetch(1)
    \/ DeleteCommentFind(1)
    \/ \E cred \in VoterCredentials, id \in CommentIds :
          StartDeleteComment(1, MaxSerialRequests, cred, NoInboundHeader, "p1", id)
    \/ DeleteCommentDelete(1)
    \/ Tick

SpecCommentsSerial == InitRegistered /\ [][NextCommentsSerial]_vars

\* the state after alice, bob and carol have signed up and alice has voted
\* up on p1
InitVotedUp ==
    /\ users = SeedUsers
    /\ votes = {Vote_create_doc(4, StrOfOid(1), "p1", "up", 0)}
    /\ comments = {}
    /\ reqs = [s \in Slots |-> IdleRequest]
    /\ now = 0
    /\ nextOid = 5
    /\ started = 0

\* Vote submissions that overlap, on a post alice has voted up on
SpecVoteRace == InitVotedUp /\ [][NextVotes]_vars

\* The vote routes with requests that overlap, on a post alice has voted
\* up on: the counts are read while votes are submitted
NextSnapshot ==
    \/ \E s \in Slots, cred \in {NoCredentials} \cup VoterCredentials :
          StartGetVotes(s, MaxRequests, cred, NoInboundHeader, "p1")
    \/ \E s \in Slots, cred \in VoterCredentials, vt \in {"up", "down"} :
          StartSubmitVote(s, MaxRequests, cred, NoInboundHeader, "p1", vt)
    \/ \E s \in Slots : SubmitVoteRead(s)
    \/ \E s \in Slots : SubmitVoteClock(s)
    \/ \E s \in Slots : SubmitVoteWrite(s)
    \/ \E s \in Slots : GetVotesCountUp(s)
    \/ \E s \in Slots : GetVotesCountDown(s)
    \/ \E s \in Slots : GetVotesUserVote(s)

SpecSnapshot == InitVotedUp /\ [][NextSnapshot]_vars

----------------------------------------------------------------------------
(* Properties of the vote ledger *)

\* the vote documents of one (user, post slug) pair
PairDocs(coll, user_id, slug) ==
    {v \in coll : v.user_id = user_id /\ v.post_slug = slug}

\* C1: in every reachable state the votes collection holds at most one
\* document for each (user_id, post_slug) pair, whatever the interleaving of
\* the submit_vote requests.
C1_OneVotePerPair ==
    \A v, w \in votes :
        (v.user_id = w.user_id /\ v.post_slug = w.post_slug) => v = w

\* C1 witness: two submissions of one user for one post raced, both read
\* "no vote" and both inserted: one document is stored and the other insert
\* was refused by the unique index.
C1_Witness ==
    \E s \in Slots :
        /\ reqs[s].route = "submit_vote"
        /\ reqs[s].pc = "done"
        /\ reqs[s].resp.status = 500
        /\ Cardinality(PairDocs(votes, CallerOid(reqs[s]), reqs[s].args.slug)) = 1

\* C2: no submit_vote request ends with a server error: a request whose
\* insert violates the unique index reads the vote again and retries.
C2_NoDuplicateKeyFailure ==
    \A s \in Slots :
        (reqs[s].route = "submit_vote" /\ reqs[s].pc = "done")
            => reqs[s].resp.status # 500

\* C3: when the pair's vote is still what the request read, the write of
\* submit_vote(kind) takes NoVote to kind by inserting one document, kind
\* to NoVote by deleting the document, and the other kind to kind by
\* changing the document in place; no other pair's document changes.
C3_WriteStep(s) ==
    LET r == reqs[s]
        kind == r.args.vote_type
        before == PairDocs(votes, CallerOid(r), r.args.slug)
        after == PairDocs(votes', CallerOid(r), r.args.slug)
        old == CHOOSE v \in before : TRUE
        new == CHOOSE v \in after : TRUE
    IN  (r.pc = "sv_write" /\ reqs'[s].pc # "sv_write" /\ r.loc.existing_vote = before)
        => /\ reqs'[s].pc = "gv_up"
           /\ votes' \ after = votes \ before
           /\ before = {} =>
                 Cardinality(after) = 1 /\ new.vote_type = kind
           /\ (before # {} /\ old.vote_type = kind) => after = {}
           /\ (before # {} /\ old.vote_type # kind) =>
                 /\ Cardinality(after) = 1
                 /\ new.id = old.id
                 /\ new.vote_type = kind
                 /\ new.created_at = old.created_at

C3_VoteTransitions == [][\A s \in Slots : C3_WriteStep(s)]_vars

\* C3 witness: alice voted up, then down, on one post: the second request
\* has written, no second document was ever created, and her one document
\* says down.
C3_Witness ==
    /\ started = 2
    /\ nextOid = 5
    /\ reqs[1].pc = "gv_up"
    /\ reqs[1].args.vote_type = "down"
    /\ \E v \in votes : votes = {v} /\ v.vote_type = "down" /\ v.id = 4

\* C4: get_votes(slug), with no request running beside it, returns as
\* upvotes the number of users whose vote on slug is up, as downvotes the
\* number whose vote on slug is down, and as user_vote the caller's own
\* vote on slug, null for a caller without credentials or without a vote.
Voters(slug, vote_type) ==
    {u \in users : \E v \in votes :
        v.user_id = u.id /\ v.post_slug = slug /\ v.vote_type = vote_type}

OwnVote(r) ==
    IF r.cred = NoCredentials THEN "null"
    ELSE LET mine == {v \in votes : v.post_slug = r.args.slug
                                    /\ r.cred.sub = {StrOfOid(v.user_id)}}
         IN  IF mine = {} THEN "null" ELSE (CHOOSE v \in mine : TRUE).vote_type

C4_CountsAndOwnVote ==
    (reqs[1].route = "get_votes" /\ reqs[1].pc = "done")
        => /\ reqs[1].resp.status = 200
           /\ reqs[1].resp.body.upvotes = Cardinality(Voters(reqs[1].args.slug, "up"))
           /\ reqs[1].resp.body.downvotes = Cardinality(Voters(reqs[1].args.slug, "down"))
           /\ reqs[1].resp.body.user_vote = OwnVote(reqs[1])

\* C4 witness: two users voted up and a third down on p1, and get_votes
\* answered upvotes 2, downvotes 1 to a caller who is one of the two.
C4_Witness ==
    /\ reqs[1].route = "get_votes"
    /\ reqs[1].pc = "done"
    /\ reqs[1].args.slug = "p1"
    /\ reqs[1].resp.body = VoteResponse(2, 1, "up")

----------------------------------------------------------------------------
(* Properties of registration and login *)

\* C5: a signup request with a valid body that is not answered with a new
\* user and a token is answered 400 (DuplicateField), whichever way the
\* signups interleave: of two signups racing for one email or one username
\* the loser gets 400.
C5_DuplicateIsRejected400 ==
    \A s \in Slots :
        (reqs[s].route = "signup" /\ reqs[s].pc = "done"
           /\ UserCreateErrors(reqs[s].args.username, reqs[s].args.password) = {})
            => \/ reqs[s].resp.status = 400
               \/ /\ reqs[s].resp.status = 200
                  /\ \E u \in users : /\ u.username = reqs[s].args.username
                                      /\ u.email = reqs[s].args.email
                                      /\ reqs[s].resp.body.user = User_to_response(u)

\* C6: in every reachable state no two stored users share a username and
\* no two stored users share an email.
C6_UniqueUsernameAndEmail ==
    \A u, w \in users :
        (u.username = w.username \/ u.email = w.email) => u = w

\* C6 witness: two signups raced for one username with different emails,
\* both passed the two checks, and one insert was refused: one user holds
\* the name.
C6_Witness ==
    \E s \in Slots :
        /\ reqs[s].route = "signup"
        /\ reqs[s].pc = "done"
        /\ reqs[s].resp.status = 500
        /\ \E u \in users : /\ u.username = reqs[s].args.username
                            /\ u.email # reqs[s].args.email
        /\ ~\E u \in users : u.email = reqs[s].args.email

\* C7: a signin that fails is answered 401 with one and the same detail
\* and no header of its own, whether the email is unknown or the password
\* is wrong; it carries no token and changes no collection.  Two failed
\* signins differ in nothing but the request id the middleware echoes.
InvalidCredentials == HTTPException(401, "Invalid email or password", {})

FailedSignin(r) ==
    r.route = "signin" /\ r.pc = "done" /\ r.resp.status # 200

WithoutRequestId(resp) ==
    [resp EXCEPT !.headers = {h \in @ : h[1] # "x-request-id"}]

C7_FailuresLookAlike ==
    \A s, t \in Slots :
        (FailedSignin(reqs[s]) /\ FailedSignin(reqs[t]))
            => /\ WithoutRequestId(reqs[s].resp) = InvalidCredentials
               /\ WithoutRequestId(reqs[s].resp) = WithoutRequestId(reqs[t].resp)

C7_SigninStep ==
    \A s \in Slots :
        (reqs'[s] # reqs[s] /\ reqs'[s].route = "signin")
            => /\ reqs'[s].pc = "done"
               /\ UNCHANGED db
               /\ reqs'[s].resp.status # 200 =>
                     WithoutRequestId(reqs'[s].resp) = InvalidCredentials

C7_UniformSigninFailure == []C7_FailuresLookAlike /\ [][C7_SigninStep]_vars

\* C7 witness: one signin failed on an email nobody holds, and the last
\* request, a signin, failed on the wrong password of a registered email.
C7_Witness ==
    /\ started = 3
    /\ FailedSignin(reqs[2])
    /\ ~\E u \in users : u.email = reqs[2].args.email
    /\ FailedSignin(reqs[1])
    /\ reqs[1].request_id = uuid4(3)
    /\ \E u \in users : /\ u.email = reqs[1].args.email
                        /\ ~verify_password(reqs[1].args.password, u.hashed_password)

----------------------------------------------------------------------------
(* Properties of the comment store *)

\* the stored comments that have the identifier a client sent
CommentsWithId(coll, comment_id) == {c \in coll : StrOfOid(c.id) = comment_id}

\* C8: delete_comment by an authenticated caller answers 404 when no
\* comment has the identifier, else 403 when the comment's author is not
\* the caller, and in both cases leaves the comments as they are; else it
\* goes on, whatever the slug of the path, to remove exactly that comment,
\* which get_comments then lists for no post.
C8_DeleteStep(s) ==
    LET r == reqs'[s]
        target == CommentsWithId(comments, r.args.comment_id)
    IN  /\ (reqs[s].pc = "dc_find" /\ r.pc # "dc_find")
           => /\ reqs[s].route = "delete_comment"
              /\ reqs[s].user # {}
              /\ comments' = comments
              /\ target = {} => (r.pc = "done" /\ r.resp.status = 404)
              /\ (\E c \in target : StrOfOid(c.user_id) # TheUser(r).id)
                    => (r.pc = "done" /\ r.resp.status = 403)
              /\ (\E c \in target : StrOfOid(c.user_id) = TheUser(r).id)
                    => r.pc = "dc_delete"
        /\ (reqs[s].pc = "dc_delete" /\ r.pc # "dc_delete")
           => /\ r.pc = "done"
              /\ r.resp.status = 200
              /\ comments' = comments \ target
              /\ \A slug \in Slugs : \A q \in sorted_comments(comments', slug) :
                    \A i \in DOMAIN q : StrOfOid(q[i].id) # r.args.comment_id

C8_DeleteComment == [][\A s \in Slots : C8_DeleteStep(s)]_vars

\* C8 witness: an author has deleted one comment, under the path of a post
\* the comment was not written on, and another comment is still stored.
C8_Witness ==
    \E s \in Slots :
        /\ reqs[s].route = "delete_comment"
        /\ reqs[s].pc = "done"
        /\ reqs[s].resp.status = 200
        /\ CommentsWithId(comments, reqs[s].args.comment_id) = {}
        /\ comments # {}
        /\ \A c \in comments : c.post_slug # reqs[s].args.slug

----------------------------------------------------------------------------
(* Properties of the request gateway *)

\* a token authenticates at time t: it is a JWT signed with the server's
\* key, not expired, whose sub is the identifier of a stored user
NamedUsers(cred) == {u \in users : cred.sub = {StrOfOid(u.id)}}

TokenAuthenticates(cred, t) ==
    /\ cred.form = "jwt"
    /\ cred.key = JWT_SECRET
    /\ cred.exp >= t
    /\ NamedUsers(cred) # {}

RequiredRoutes == {"submit_vote", "add_comment", "delete_comment", "get_me"}
OptionalRoutes == {"get_votes", "get_comments"}

\* C9: a request to submit_vote, add_comment, delete_comment or get_me
\* without a token, or with one that is malformed, wrongly signed, expired
\* or names no stored user, is answered 401 with a WWW-Authenticate header
\* and changes no collection.
C9_Step(s) ==
    LET r == reqs'[s]
    IN  (started' # started /\ reqs'[s] # reqs[s] /\ r.route \in RequiredRoutes
           /\ ~TokenAuthenticates(r.cred, now))
        => /\ r.pc = "done"
           /\ r.resp.status = 401
           /\ \E h \in r.resp.headers : h[1] = "WWW-Authenticate"
           /\ UNCHANGED db

C9_RequiredAuth == [][\A s \in Slots : C9_Step(s)]_vars

\* C9 witness: delete_comment was called for a stored comment with its
\* author's token, which has expired, and was answered 401.
C9_Witness ==
    \E s \in Slots :
        /\ reqs[s].route = "delete_comment"
        /\ reqs[s].pc = "done"
        /\ reqs[s].resp.status = 401
        /\ reqs[s].cred.key = JWT_SECRET
        /\ reqs[s].cred.exp < now
        /\ \E c \in CommentsWithId(comments, reqs[s].args.comment_id) :
              reqs[s].cred.sub = {StrOfOid(c.user_id)}

\* C10: get_votes and get_comments never fail on the credentials: without
\* a token that authenticates the request runs as an anonymous one and is
\* answered 200 with the counts and the comments of the post, user_vote
\* null and is_own false on every entry; with one, the named user is the
\* caller.
C10_Receive(s) ==
    LET r == reqs'[s]
    IN  (started' # started /\ reqs'[s] # reqs[s] /\ r.route \in OptionalRoutes)
        => /\ UNCHANGED db
           /\ r.user = IF TokenAuthenticates(r.cred, now)
                       THEN {User_to_response(u) : u \in NamedUsers(r.cred)}
                       ELSE {}

C10_Answer(r) ==
    (r.route \in OptionalRoutes /\ r.pc = "done")
    => /\ r.resp.status = 200
       /\ r.route = "get_votes" =>
             /\ r.resp.body.upvotes =
                   Cardinality({v \in votes : v.post_slug = r.args.slug /\ v.vote_type = "up"})
             /\ r.resp.body.downvotes =
                   Cardinality({v \in votes : v.post_slug = r.args.slug /\ v.vote_type = "down"})
             /\ r.user = {} => r.resp.body.user_vote = "null"
             /\ r.user # {} =>
                   \/ \E v \in votes : /\ v.post_slug = r.args.slug
                                       /\ StrOfOid(v.user_id) = TheUser(r).id
                                       /\ r.resp.body.user_vote = v.vote_type
                   \/ /\ r.resp.body.user_vote = "null"
                      /\ ~\E v \in votes : /\ v.post_slug = r.args.slug
                                           /\ StrOfOid(v.user_id) = TheUser(r).id
       /\ r.route = "get_comments" =>
             LET items == r.resp.body.items
             IN  /\ {items[i].id : i \in DOMAIN items} =
                       {StrOfOid(c.id) : c \in {x \in comments : x.post_slug = r.args.slug}}
                 /\ Len(items) = Cardinality({x \in comments : x.post_slug = r.args.slug})
                 /\ \A i \in DOMAIN items :
                       items[i].is_own =
                          /\ r.user # {}
                          /\ \E c \in comments : /\ StrOfOid(c.id) = items[i].id
                                                 /\ StrOfOid(c.user_id) = TheUser(r).id

C10_OptionalAuth ==
    /\ [](\A s \in Slots : C10_Answer(reqs[s]))
    /\ [][\A s \in Slots : C10_Receive(s)]_vars

\* C10 witness: get_comments was called with the expired token of the
\* author of a comment it lists, and lists it with is_own false.
C10_Witness ==
    \E s \in Slots :
        /\ reqs[s].route = "get_comments"
        /\ reqs[s].pc = "done"
        /\ reqs[s].cred.key = JWT_SECRET
        /\ reqs[s].cred.exp < now
        /\ Len(reqs[s].resp.body.items) > 0
        /\ \A i \in DOMAIN reqs[s].resp.body.items :
              /\ ~reqs[s].resp.body.items[i].is_own
              /\ \E c \in CommentsWithId(comments, reqs[s].resp.body.items[i].id) :
                    reqs[s].cred.sub = {StrOfOid(c.user_id)}

----------------------------------------------------------------------------
(* Properties of the tokens *)

\* C11: the token signup and signin answer with names the user and expires
\* 1440 minutes after the time it is issued; a token issued at t to a
\* stored user, sent to get_me at a time from t to t + 1440, is answered
\* 200 with that user, and at any later time 401; the clock never goes
\* back, so an expired token stays expired.
C11_Issued(s) ==
    LET r == reqs'[s]
    IN  (reqs'[s] # reqs[s] /\ r.route \in {"signup", "signin"} /\ r.pc = "done"
           /\ r.resp.status = 200)
        => /\ r.resp.body.access_token.form = "jwt"
           /\ r.resp.body.access_token.key = JWT_SECRET
           /\ r.resp.body.access_token.exp = now + 1440
           /\ r.resp.body.access_token.sub = {r.resp.body.user.id}
           /\ \E u \in users' : /\ StrOfOid(u.id) = r.resp.body.user.id
                                /\ u.email = r.args.email

C11_Verified(s) ==
    LET r == reqs'[s]
        t == r.cred.exp - 1440
    IN  (started' # started /\ reqs'[s] # reqs[s] /\ r.route = "get_me"
           /\ r.cred.form = "jwt" /\ r.cred.key = JWT_SECRET
           /\ NamedUsers(r.cred) # {})
        => /\ t <= now
           /\ (now <= t + 1440) =>
                 /\ r.resp.status = 200
                 /\ r.cred.sub = {r.resp.body.id}
           /\ (now > t + 1440) => r.resp.status = 401

C11_TokenLifetime ==
    [][/\ \A s \in Slots : C11_Issued(s) /\ C11_Verified(s)
       /\ now' >= now]_vars

\* C11 witness: get_me refuses the token of a stored user one minute after
\* its expiry, 1441 minutes after it was issued.
C11_Witness ==
    \E u \in users :
        /\ reqs[1].route = "get_me"
        /\ reqs[1].pc = "done"
        /\ reqs[1].cred.key = JWT_SECRET
        /\ reqs[1].cred.sub = {StrOfOid(u.id)}
        /\ reqs[1].cred.exp - 1440 >= u.created_at
        /\ now = reqs[1].cred.exp + 1
        /\ reqs[1].resp.status = 401

----------------------------------------------------------------------------
(* Properties of the request tracing *)

\* C12: every response, whatever the route and the outcome (200, 4xx,
\* 500), carries an x-request-id header: the one the request came with,
\* and otherwise a generated identifier no other request has.
C12_EveryResponseCarriesRequestId ==
    \A s \in Slots :
        reqs[s].pc = "done" =>
            /\ \E h \in reqs[s].resp.headers :
                   /\ h[1] = "x-request-id"
                   /\ h[2] = reqs[s].request_id
            /\ reqs[s].inbound # {} => reqs[s].request_id \in reqs[s].inbound
            /\ reqs[s].inbound = {} =>
                   /\ reqs[s].request_id.kind = "uuid4"
                   /\ \A t \in Slots \ {s} :
                          reqs[t].pc # "idle" => reqs[t].request_id # reqs[s].request_id

\* the same, of the responses call_next returned (the handler returned or
\* raised an HTTPException)
C12_ReturnedResponsesCarryRequestId ==
    \A s \in Slots :
        (reqs[s].pc = "done" /\ reqs[s].resp.status # 500) =>
            /\ \E h \in reqs[s].resp.headers :
                   /\ h[1] = "x-request-id"
                   /\ h[2] = reqs[s].request_id
            /\ reqs[s].inbound # {} => reqs[s].request_id \in reqs[s].inbound
            /\ reqs[s].inbound = {} =>
                   /\ reqs[s].request_id.kind = "uuid4"
                   /\ \A t \in Slots \ {s} :
                          reqs[t].pc # "idle" => reqs[t].request_id # reqs[s].request_id

----------------------------------------------------------------------------
(* Properties of the comment listing *)

\* C13: get_comments, with no request running beside it, answers with one
\* entry for each comment stored for the slug and no other entry, a newer
\* comment before an older one, and is_own true on exactly the entries
\* whose author is the caller the token named when the request arrived
\* (false on all of them without a token that authenticates).
C13_Receive(s) ==
    LET r == reqs'[s]
    IN  (started' # started /\ reqs'[s] # reqs[s] /\ r.route = "get_comments")
        => r.user = IF TokenAuthenticates(r.cred, now)
                    THEN {User_to_response(u) : u \in NamedUsers(r.cred)}
                    ELSE {}

C13_Answer(s) ==
    LET r == reqs'[s]
        items == r.resp.body.items
        stored == {c \in comments : c.post_slug = r.args.slug}
    IN  (r.route = "get_comments" /\ reqs[s].pc # "done" /\ r.pc = "done")
        => /\ r.resp.status = 200
           /\ UNCHANGED db
           /\ Len(items) = Cardinality(stored)
           /\ \A c \in stored :
                 \E i \in DOMAIN items :
                    /\ items[i].id = StrOfOid(c.id)
                    /\ items[i].text = c.text
                    /\ items[i].created_at = c.created_at
                    /\ items[i].is_own =
                          \E u \in r.user : u.id = StrOfOid(c.user_id)
           /\ \A i, j \in DOMAIN items :
                 i < j => items[i].created_at >= items[j].created_at

C13_ListComments == [][\A s \in Slots : C13_Receive(s) /\ C13_Answer(s)]_vars

\* C13 witness: get_comments lists two comments of the post, the newer
\* first, one by the caller and one by somebody else, while a comment of
\* another post is stored.
C13_Witness ==
    /\ reqs[1].route = "get_comments"
    /\ reqs[1].pc = "done"
    /\ Len(reqs[1].resp.body.items) = 2
    /\ reqs[1].resp.body.items[1].created_at > reqs[1].resp.body.items[2].created_at
    /\ reqs[1].resp.body.items[1].is_own # reqs[1].resp.body.items[2].is_own
    /\ \E c \in comments : c.post_slug # reqs[1].args.slug

----------------------------------------------------------------------------
(* Properties of vote submissions that overlap *)

\* the vote state of a (user, post slug) pair: "none", "up" or "down"
PairState(coll, user_id, slug) ==
    IF PairDocs(coll, user_id, slug) = {} THEN "none"
    ELSE (CHOOSE v \in PairDocs(coll, user_id, slug) : TRUE).vote_type

\* the state machine of spec section 4.3: one submission applied to a state
Submitted(state, kind) ==
    IF state = "none" THEN kind
    ELSE IF state = kind THEN "none"
    ELSE kind

\* the only requests so far are two submit_vote requests by alice for p1,
\* received one while the other was served, and both are answered
TwoOverlappingSubmissions ==
    /\ NumSlots >= 2
    /\ started = 2
    /\ \A s \in {1, 2} :
          /\ reqs[s].route = "submit_vote"
          /\ reqs[s].pc = "done"
          /\ reqs[s].cred.sub = {StrOfOid(1)}
          /\ reqs[s].args.slug = "p1"
          /\ reqs[s].args.vote_type \in {"up", "down"}

\* C14: two overlapping submit_vote requests by alice for p1, on which her
\* vote was up, leave her vote in the state that applying the two
\* submissions one after the other, in one order or the other, leads to.
C14_Linearizable ==
    TwoOverlappingSubmissions =>
        LET k1 == reqs[1].args.vote_type
            k2 == reqs[2].args.vote_type
        IN  PairState(votes, 1, "p1") \in
               { Submitted(Submitted("up", k1), k2),
                 Submitted(Submitted("up", k2), k1) }

----------------------------------------------------------------------------
(* Properties of the counts read while votes are submitted *)

\* the (upvotes, downvotes) of a post on which alice's vote is a and bob's
\* is b, and nobody else has voted
CountsOf(a, b) ==
    << (IF a = "up" THEN 1 ELSE 0) + (IF b = "up" THEN 1 ELSE 0),
       (IF a = "down" THEN 1 ELSE 0) + (IF b = "down" THEN 1 ELSE 0) >>

\* the only requests so far: a get_votes request by anybody, or a
\* submit_vote request by bob, and, received while it was served, a
\* submit_vote request by alice; all for p1, and both are answered 200
ReadOverlapsAliceSubmission ==
    /\ NumSlots >= 2
    /\ started = 2
    /\ \A s \in {1, 2} : reqs[s].pc = "done" /\ reqs[s].resp.status = 200
    /\ \/ reqs[1].route = "get_votes"
       \/ reqs[1].route = "submit_vote" /\ reqs[1].cred.sub = {StrOfOid(2)}
    /\ reqs[2].route = "submit_vote"
    /\ reqs[2].cred.sub = {StrOfOid(1)}

\* C15: the counts a request is answered with are those the store held at
\* one moment of the request.  With alice's vote up at first and the two
\* requests above, the store holds, at any moment, alice's vote as it was
\* or as her submission left it, and bob's likewise; and each submit_vote is
\* answered with the user_vote its own submission left.
C15_ConsistentSnapshot ==
    ReadOverlapsAliceSubmission =>
        LET aliceAfter == Submitted("up", reqs[2].args.vote_type)
            bobAfter == IF reqs[1].route = "submit_vote"
                        THEN Submitted("none", reqs[1].args.vote_type)
                        ELSE "none"
            Moments == {CountsOf(a, b) : a \in {"up", aliceAfter}, b \in {"none", bobAfter}}
            Null(state) == IF state = "none" THEN "null" ELSE state
        IN  /\ \A s \in {1, 2} :
                  <<reqs[s].resp.body.upvotes, reqs[s].resp.body.downvotes>> \in Moments
            /\ reqs[2].resp.body.user_vote = Null(aliceAfter)
            /\ reqs[1].route = "submit_vote" =>
                  reqs[1].resp.body.user_vote = Null(bobAfter)

====
